---- MODULE Spec2Model ----
\* Model of search::Retrieval (src/search/retrieval.cpp): the progressive
\* viewport expansion of Retrieval::Go over the buckets built by
\* Retrieval::Init, with the two matchers and the callback.
\*
\* Arithmetic.  Coordinates are integers.  The loop variable viewportScale of
\* Go takes the values sqrt(2)^k; the model keeps k (viewportScaleStep) and
\* represents every scale s by the integer 4*s^2 ("quarter squares"), so that
\* sqrt(2)^k is 4*2^k and a maximal scale of 1/2, 2, 3 is 1, 16, 36.  All
\* comparisons between a scaled viewport and a rectangle are decided exactly
\* on squares (real arithmetic; rounding of doubles is not modelled).
EXTENDS Integers, Sequences, FiniteSets, TLC

VARIABLES
    index,              \* the registry passed to Init: sequence of mwms
    m_viewport,         \* Retrieval::m_viewport (base viewport)
    m_limits,           \* Retrieval::m_limits
    m_buckets,          \* Retrieval::m_buckets
    initialized,        \* Init has been called (m_index != nullptr)
    reinit,             \* "kept"/"replaced": the latest call was an Init on a controller
                        \* that had run a Go, with the limits it held / with other
                        \* limits; "no": otherwise
    pc,                 \* position of the caller: "idle", in Go's "loop", in Go's "drain"
    viewportScaleStep,  \* k, where Go's viewportScale = sqrt(2)^k
    scale,              \* Go's local `scale` of the latest pass (quarter squares)
    goCalls,            \* number of Go calls since the last Init
    prevExitStep,       \* k of the final pass of the previous Go since Init (-1: none)
    events              \* matcher runs and callback invocations since the last Init

vars == <<index, m_viewport, m_limits, m_buckets, initialized, reinit, pc,
          viewportScaleStep, scale, goCalls, prevExitStep, events>>

-----------------------------------------------------------------------------
\* Bounds of the model.

\* Loop iterations of one Go the model follows (k = 0..MaxStep).
MaxStep == 6
\* Go calls followed after one Init.
MaxGo == 2
\* Mwms in the registry.
MaxMwms == 2

-----------------------------------------------------------------------------
\* Rectangles (m2::RectD) and the viewport scaled about its centre.

Rect(minX, minY, maxX, maxY) ==
    [minX |-> minX, minY |-> minY, maxX |-> maxX, maxY |-> maxY]

\* w * sqrt(sq) < d, for w >= 0, sq >= 0.
ScaledLess(w, sq, d) == IF d <= 0 THEN FALSE ELSE w * w * sq < d * d

\* m2::RectD::Scale: the base rectangle scaled about its centre.  The result
\* has irrational corners, so it is kept as the pair (base, quarter-square
\* scale); corner c -/+ (size/2)*s is 4*corner = 2*(min+max) -/+ size*sqrt(sq).
Scale(rect, sq) == [base |-> rect, sq |-> sq]

SizeX(r) == r.maxX - r.minX
SizeY(r) == r.maxY - r.minY

\* viewport.maxX < x, viewport.minX > x (and the same for Y).
MaxXLess(v, x) == ScaledLess(SizeX(v.base), v.sq, 4 * x - 2 * (v.base.minX + v.base.maxX))
MinXGreater(v, x) == ScaledLess(SizeX(v.base), v.sq, 2 * (v.base.minX + v.base.maxX) - 4 * x)
MaxYLess(v, y) == ScaledLess(SizeY(v.base), v.sq, 4 * y - 2 * (v.base.minY + v.base.maxY))
MinYGreater(v, y) == ScaledLess(SizeY(v.base), v.sq, 2 * (v.base.minY + v.base.maxY) - 4 * y)

\* m2::RectD::IsIntersect: closed rectangles share a point.
IsIntersect(v, r) ==
    ~(MaxXLess(v, r.minX) \/ MinXGreater(v, r.maxX) \/
      MaxYLess(v, r.minY) \/ MinYGreater(v, r.maxY))

\* m2::RectD::IsRectInside: r lies in the closed viewport.
IsRectInside(v, r) ==
    /\ ~MinXGreater(v, r.minX)
    /\ ~MinYGreater(v, r.minY)
    /\ ~MaxXLess(v, r.maxX)
    /\ ~MaxYLess(v, r.maxY)

-----------------------------------------------------------------------------
\* std::sort and std::set_intersection as the library computes them.

RECURSIVE InsertSorted(_, _)
InsertSorted(x, s) ==
    IF s = <<>> THEN <<x>>
    ELSE IF x <= Head(s) THEN <<x>> \o s
    ELSE <<Head(s)>> \o InsertSorted(x, Tail(s))

RECURSIVE Sort(_)
Sort(s) == IF s = <<>> THEN <<>> ELSE InsertSorted(Head(s), Sort(Tail(s)))

RECURSIVE SetIntersection(_, _)
SetIntersection(a, b) ==
    IF a = <<>> \/ b = <<>> THEN <<>>
    ELSE IF Head(a) < Head(b) THEN SetIntersection(Tail(a), b)
    ELSE IF Head(b) < Head(a) THEN SetIntersection(a, Tail(b))
    ELSE <<Head(a)>> \o SetIntersection(Tail(a), Tail(b))

ToSet(s) == {s[i] : i \in 1..Len(s)}

RECURSIVE SumLen(_)
SumLen(ss) == IF ss = <<>> THEN 0 ELSE Len(Head(ss)) + SumLen(Tail(ss))

-----------------------------------------------------------------------------
\* The inputs: mwm files of the registry, base viewports and limits.

\* Mwm(bounds, hasSearchIndex, address, lo, hi): an mwm file of the registry.
\* bounds: feature::DataHeader::GetBounds.  address: the feature ids the trie
\* matcher emits for the query, in emission order.  lo, hi: the feature ids
\* the scale index emits for the covering cell at the min corner and at the
\* max corner of the bounds, in emission order; a feature whose geometry
\* spans both cells is emitted once per cell.
Mwm(bounds, hasSearchIndex, address, lo, hi) ==
    [bounds |-> bounds, alive |-> TRUE, hasSearchIndex |-> hasSearchIndex,
     hasIndex |-> TRUE, address |-> address, lo |-> lo, hi |-> hi]

\* The mwm files the registries are built from: two over the square
\* [0,2]x[0,2], two over [2,3]x[0,1], one whose bounds are the single point
\* (3,3), as for an mwm built from one POI, and one whose search index is
\* missing (not admitted by Init).
Mwms == {
    Mwm(Rect(0, 0, 2, 2), TRUE,  <<2, 1>>, <<1>>, <<2>>),
    Mwm(Rect(0, 0, 2, 2), TRUE,  <<1, 1>>, <<1>>, <<1>>),
    Mwm(Rect(2, 0, 3, 1), TRUE,  <<>>,     <<1>>, <<2>>),
    Mwm(Rect(2, 0, 3, 1), TRUE,  <<3, 1>>, <<2>>, <<3, 2>>),
    Mwm(Rect(3, 3, 3, 3), TRUE,  <<2, 1>>, <<1>>, <<2>>),
    Mwm(Rect(0, 0, 2, 2), FALSE, <<>>,     <<1>>, <<>>) }

Registries == UNION {[1..n -> Mwms] : n \in 0..MaxMwms}

\* Base viewports handed to Init: a unit square, a rectangle touching two
\* mwms and a rectangle of height zero.
Viewports == {Rect(0, 0, 1, 1), Rect(1, 0, 3, 1), Rect(0, 0, 2, 0)}

\* Values given to Limits::SetMaxViewportScale: 1/2, 2, 3 (quarter squares).
MaxViewportScales == {1, 16, 36}

\* Values given to Limits::SetMinNumFeatures.
MinNumFeatures == {0, 1, 2}

\* Retrieval::Limits::Limits
DefaultLimits ==
    [m_minNumFeatures |-> 0, m_maxViewportScale |-> 0,
     m_minNumFeaturesSet |-> FALSE, m_maxViewportScaleSet |-> FALSE]

\* Retrieval::Limits::SetMinNumFeatures
SetMinNumFeatures(limits, minNumFeatures) ==
    [limits EXCEPT !.m_minNumFeatures = minNumFeatures, !.m_minNumFeaturesSet = TRUE]

\* Retrieval::Limits::SetMaxViewportScale
SetMaxViewportScale(limits, maxViewportScale) ==
    [limits EXCEPT !.m_maxViewportScale = maxViewportScale, !.m_maxViewportScaleSet = TRUE]

LimitsWithMin == {DefaultLimits} \cup
    {SetMinNumFeatures(DefaultLimits, m) : m \in MinNumFeatures}

AllLimits == LimitsWithMin \cup
    {SetMaxViewportScale(l, s) : l \in LimitsWithMin, s \in MaxViewportScales}

-----------------------------------------------------------------------------
\* The matchers.

\* RetrieveAddressFeatures: the ids the trie matcher emits, unsorted.
RetrieveAddressFeatures(handle) == index[handle].address

\* The covering cells of an mwm: the min and the max corner of its bounds.
LoCell(r) == Rect(r.minX, r.minY, r.minX, r.minY)
HiCell(r) == Rect(r.maxX, r.maxY, r.maxX, r.maxY)

\* RetrieveGeometryFeatures: for each covering interval of the viewport the
\* ids the scale index emits, unsorted, duplicates included.
RetrieveGeometryFeatures(handle, viewport) ==
    LET mwm == index[handle]
    IN  (IF IsIntersect(viewport, LoCell(mwm.bounds)) THEN mwm.lo ELSE <<>>) \o
        (IF IsIntersect(viewport, HiCell(mwm.bounds)) THEN mwm.hi ELSE <<>>)

-----------------------------------------------------------------------------
\* Buckets and events.

\* Retrieval::FeatureBucket::FeatureBucket
FeatureBucket(handle) ==
    [m_handle |-> handle,
     m_bounds |-> index[handle].bounds,
     m_addressFeatures |-> <<>>,
     m_geometryFeatures |-> <<>>,
     m_intersection |-> <<>>,
     m_intersectsWithViewport |-> FALSE,
     m_coveredByViewport |-> FALSE,
     m_finished |-> FALSE]

\* One observable step of a retrieval: a matcher run ("address",
\* "geometry") or a callback invocation ("sink") for mwm `id`, in Go number
\* `go`, in pass `pass` of its loop (-1: the drain after the loop), at the
\* scale `sq` of that pass (of the final pass, for the drain); offsets is the
\* callback's argument.
Event(kind, id, pass, sq, offsets) ==
    [kind |-> kind, id |-> id, go |-> goCalls, pass |-> pass, scale |-> sq,
     offsets |-> offsets]

\* Callback::OnMwmProcessed
OnMwmProcessed(id, pass, sq, offsets) == Event("sink", id, pass, sq, offsets)

-----------------------------------------------------------------------------
\* Retrieval::RetrieveForViewport, lines 180-208: a bucket that is not skipped.
\* The bucket after the pass and the events of the pass, in order.
ProcessBucket(bucket, viewport, pass) ==
    LET first == ~bucket.m_intersectsWithViewport
        b1 == IF first
              THEN [bucket EXCEPT
                       !.m_addressFeatures = Sort(RetrieveAddressFeatures(bucket.m_handle)),
                       !.m_intersectsWithViewport = TRUE]
              ELSE bucket
        e1 == IF first
              THEN <<Event("address", bucket.m_handle, pass, viewport.sq, <<>>)>>
              ELSE <<>>
        geometry == Sort(RetrieveGeometryFeatures(bucket.m_handle, viewport))
        b2 == IF ~b1.m_coveredByViewport
              THEN [b1 EXCEPT
                       !.m_geometryFeatures = geometry,
                       !.m_intersection = SetIntersection(b1.m_addressFeatures, geometry)]
              ELSE b1
        e2 == IF ~b1.m_coveredByViewport
              THEN e1 \o <<Event("geometry", bucket.m_handle, pass, viewport.sq, <<>>)>>
              ELSE e1
        covers == ~b2.m_coveredByViewport /\ IsRectInside(viewport, b2.m_bounds)
        b3 == IF covers
              THEN [b2 EXCEPT !.m_coveredByViewport = TRUE, !.m_finished = TRUE]
              ELSE b2
        e3 == IF covers /\ b2.m_intersection # <<>>
              THEN e2 \o <<OnMwmProcessed(b2.m_handle, pass, viewport.sq, b2.m_intersection)>>
              ELSE e2
    IN  [bucket |-> b3, events |-> e3]

\* Mutant: the finished flag is not looked at when a bucket is skipped.
RetrieveBucket_IgnoresFinished(bucket, viewport, pass) ==
    IF bucket.m_coveredByViewport \/ ~IsIntersect(viewport, bucket.m_bounds)
    THEN [bucket |-> bucket, events |-> <<>>]
    ELSE ProcessBucket(bucket, viewport, pass)

\* Mutant: on the pass that covers the bucket the geometry matcher is not
\* run again and the intersection of the previous pass is reported.
RetrieveBucket_StaleOnCover(bucket, viewport, pass) ==
    IF \/ bucket.m_coveredByViewport
       \/ bucket.m_finished
       \/ ~IsIntersect(viewport, bucket.m_bounds)
    THEN [bucket |-> bucket, events |-> <<>>]
    ELSE IF bucket.m_intersectsWithViewport /\ IsRectInside(viewport, bucket.m_bounds)
    THEN [bucket |-> [bucket EXCEPT !.m_coveredByViewport = TRUE, !.m_finished = TRUE],
          events |-> IF bucket.m_intersection # <<>>
                     THEN <<OnMwmProcessed(bucket.m_handle, pass, viewport.sq,
                                           bucket.m_intersection)>>
                     ELSE <<>>]
    ELSE ProcessBucket(bucket, viewport, pass)

\* Mutant: the pass that covers a bucket marks it finished and leaves
\* m_coveredByViewport as it was.
RetrieveBucket_FinishedNotCovered(bucket, viewport, pass) ==
    IF \/ bucket.m_coveredByViewport
       \/ bucket.m_finished
       \/ ~IsIntersect(viewport, bucket.m_bounds)
    THEN [bucket |-> bucket, events |-> <<>>]
    ELSE LET result == ProcessBucket(bucket, viewport, pass)
         IN  [bucket |-> [result.bucket EXCEPT !.m_coveredByViewport = FALSE],
              events |-> result.events]

\* Mutant: a bucket is processed whether or not the viewport meets its bounds.
RetrieveBucket_NoIntersectCheck(bucket, viewport, pass) ==
    IF bucket.m_coveredByViewport \/ bucket.m_finished
    THEN [bucket |-> bucket, events |-> <<>>]
    ELSE ProcessBucket(bucket, viewport, pass)

\* Mutant: the address matcher runs in every pass that processes the bucket.
RetrieveBucket_AddressEveryPass(bucket, viewport, pass) ==
    IF \/ bucket.m_coveredByViewport
       \/ bucket.m_finished
       \/ ~IsIntersect(viewport, bucket.m_bounds)
    THEN [bucket |-> bucket, events |-> <<>>]
    ELSE ProcessBucket([bucket EXCEPT !.m_intersectsWithViewport = FALSE], viewport, pass)

\* Mutant: the pass that covers a bucket marks it and does not report it.
RetrieveBucket_NoCoverReport(bucket, viewport, pass) ==
    IF \/ bucket.m_coveredByViewport
       \/ bucket.m_finished
       \/ ~IsIntersect(viewport, bucket.m_bounds)
    THEN [bucket |-> bucket, events |-> <<>>]
    ELSE LET result == ProcessBucket(bucket, viewport, pass)
         IN  [bucket |-> result.bucket,
              events |-> SelectSeq(result.events, LAMBDA e : e.kind # "sink")]

\* Retrieval::RetrieveForViewport, lines 177-208: one bucket of its loop.
RetrieveBucket(bucket, viewport, pass) ==
    IF \/ bucket.m_coveredByViewport
       \/ bucket.m_finished
       \/ ~IsIntersect(viewport, bucket.m_bounds)
    THEN [bucket |-> bucket, events |-> <<>>]
    ELSE ProcessBucket(bucket, viewport, pass)

\* Mutant: the buckets are visited from the last to the first.
RECURSIVE ConcatEvents_Reversed(_, _)
ConcatEvents_Reversed(results, i) ==
    IF i > Len(results) THEN <<>>
    ELSE ConcatEvents_Reversed(results, i + 1) \o results[i].events

RECURSIVE ConcatEvents(_, _)
ConcatEvents(results, i) ==
    IF i > Len(results) THEN <<>>
    ELSE results[i].events \o ConcatEvents(results, i + 1)

\* Retrieval::RetrieveForViewport: every bucket in the order of m_buckets.
RetrieveForViewport(buckets, viewport, pass) ==
    LET results == [i \in 1..Len(buckets) |-> RetrieveBucket(buckets[i], viewport, pass)]
    IN  [buckets |-> [i \in 1..Len(buckets) |-> results[i].bucket],
         events |-> ConcatEvents(results, 1)]

\* Mutant: one covered bucket is enough.
ViewportCoversAllMwms_Any(buckets) ==
    \E i \in 1..Len(buckets) : buckets[i].m_coveredByViewport

\* Retrieval::ViewportCoversAllMwms
ViewportCoversAllMwms(buckets) ==
    \A i \in 1..Len(buckets) : buckets[i].m_coveredByViewport

\* Mutant: the geometry matches are counted, not the intersections.
CountRetrievedFeatures_Geometry(buckets) ==
    SumLen([i \in 1..Len(buckets) |-> buckets[i].m_geometryFeatures])

\* Retrieval::CountRetrievedFeatures
CountRetrievedFeatures(buckets) ==
    SumLen([i \in 1..Len(buckets) |-> buckets[i].m_intersection])

\* viewportScale = sqrt(2)^k, in quarter squares.
ViewportScale(k) == 4 * (2 ^ k)

\* Mutant: the scale of the pass is not clamped to the maximal scale.
PassScale_NoClamp(limits, k) == ViewportScale(k)

\* Go, lines 145-147: the scale of the pass.
PassScale(limits, k) ==
    IF limits.m_maxViewportScaleSet /\ ViewportScale(k) >= limits.m_maxViewportScale
    THEN limits.m_maxViewportScale
    ELSE ViewportScale(k)

\* Mutant: the viewport of the pass is scaled by viewportScale, not by the
\* clamped scale.
PassViewport_Unclamped(base, limits, k) == Scale(base, ViewportScale(k))

\* Retrieval::Go, lines 149-150: the viewport handed to the pass of step k is
\* the base viewport scaled by the clamped scale.
PassViewport(base, limits, k) == Scale(base, PassScale(limits, k))

\* Mutant: the comparison with min_num_features is the wrong way round.
LoopExits_CountAtMostMin(limits, buckets, passScale) ==
    \/ ViewportCoversAllMwms(buckets)
    \/ limits.m_maxViewportScaleSet /\ passScale >= limits.m_maxViewportScale
    \/ limits.m_minNumFeaturesSet /\ CountRetrievedFeatures(buckets) <= limits.m_minNumFeatures

\* Mutant: the minimum must be exceeded, not reached.
LoopExits_StrictMin(limits, buckets, passScale) ==
    \/ ViewportCoversAllMwms(buckets)
    \/ limits.m_maxViewportScaleSet /\ passScale >= limits.m_maxViewportScale
    \/ limits.m_minNumFeaturesSet /\ CountRetrievedFeatures(buckets) > limits.m_minNumFeatures

\* Go, lines 153-158: the loop is left after the pass.
LoopExits(limits, buckets, passScale) ==
    \/ ViewportCoversAllMwms(buckets)
    \/ limits.m_maxViewportScaleSet /\ passScale >= limits.m_maxViewportScale
    \/ limits.m_minNumFeaturesSet /\ CountRetrievedFeatures(buckets) >= limits.m_minNumFeatures

\* Mutant: the drain does not skip the finished buckets.
DrainBucket_NoFinishedCheck(bucket) ==
    [bucket |-> [bucket EXCEPT !.m_finished = TRUE],
     events |-> IF bucket.m_intersection # <<>>
                THEN <<OnMwmProcessed(bucket.m_handle, -1, scale, bucket.m_intersection)>>
                ELSE <<>>]

\* Mutant: the drain reports every bucket it finishes, empty or not.
DrainBucket_ReportsEmpty(bucket) ==
    IF bucket.m_finished
    THEN [bucket |-> bucket, events |-> <<>>]
    ELSE [bucket |-> [bucket EXCEPT !.m_finished = TRUE],
          events |-> <<OnMwmProcessed(bucket.m_handle, -1, scale, bucket.m_intersection)>>]

\* Mutant: the drain marks a bucket finished only when it reports it.
DrainBucket_FinishIfReported(bucket) ==
    IF bucket.m_finished \/ bucket.m_intersection = <<>>
    THEN [bucket |-> bucket, events |-> <<>>]
    ELSE [bucket |-> [bucket EXCEPT !.m_finished = TRUE],
          events |-> <<OnMwmProcessed(bucket.m_handle, -1, scale, bucket.m_intersection)>>]

\* Go, lines 161-170, one bucket of the drain.
DrainBucket(bucket) ==
    IF bucket.m_finished
    THEN [bucket |-> bucket, events |-> <<>>]
    ELSE [bucket |-> [bucket EXCEPT !.m_finished = TRUE],
          events |-> IF bucket.m_intersection # <<>>
                     THEN <<OnMwmProcessed(bucket.m_handle, -1, scale, bucket.m_intersection)>>
                     ELSE <<>>]

\* Mutant: Init does not clear m_buckets before it fills it.
RECURSIVE AdmittedFrom_NoClear(_)
AdmittedFrom_NoClear(i) ==
    IF i > Len(index) THEN <<>>
    ELSE (IF i = 1 THEN m_buckets ELSE <<>>) \o
         (IF index[i].alive /\ index[i].hasSearchIndex /\ index[i].hasIndex
          THEN <<FeatureBucket(i)>> ELSE <<>>) \o
         AdmittedFrom_NoClear(i + 1)

\* Retrieval::Init, lines 123-136: the handles of the admitted mwms.
RECURSIVE AdmittedFrom(_)
AdmittedFrom(i) ==
    IF i > Len(index) THEN <<>>
    ELSE IF index[i].alive /\ index[i].hasSearchIndex /\ index[i].hasIndex
         THEN <<FeatureBucket(i)>> \o AdmittedFrom(i + 1)
         ELSE AdmittedFrom(i + 1)

\* Retrieval::Go as a function of the controller's fields: the loop from
\* step k on, over `buckets`, with the events evs of the earlier passes.  A
\* loop that stands beyond the horizon MaxStep has not returned.
RECURSIVE GoLoop(_, _, _, _, _)
GoLoop(base, limits, buckets, evs, k) ==
    IF k > MaxStep
    THEN [returned |-> FALSE, buckets |-> buckets, events |-> evs, passes |-> k]
    ELSE LET result == RetrieveForViewport(buckets, PassViewport(base, limits, k), k)
         IN  IF LoopExits(limits, result.buckets, PassScale(limits, k))
             THEN [returned |-> TRUE, buckets |-> result.buckets,
                   events |-> evs \o result.events, passes |-> k + 1]
             ELSE GoLoop(base, limits, result.buckets, evs \o result.events, k + 1)

\* Retrieval::Go as a function: the loop, then the drain.  (The events carry
\* the Go number and, for the drain, the scale of the controller at hand;
\* the comparisons of two retrievals read the ids only.)
GoRun(base, limits, buckets) ==
    LET loop == GoLoop(base, limits, buckets, <<>>, 0)
        drained == [i \in 1..Len(loop.buckets) |-> DrainBucket(loop.buckets[i])]
    IN  [returned |-> loop.returned,
         passes |-> loop.passes,
         buckets |-> [i \in 1..Len(loop.buckets) |-> drained[i].bucket],
         events |-> loop.events \o ConcatEvents(drained, 1)]

-----------------------------------------------------------------------------
\* The state machine.

\* Retrieval::Retrieval, over any registry.
Init ==
    /\ index \in Registries
    /\ m_viewport = Rect(0, 0, 0, 0)
    /\ m_limits = DefaultLimits
    /\ m_buckets = <<>>
    /\ initialized = FALSE
    /\ reinit = "no"
    /\ pc = "idle"
    /\ viewportScaleStep = 0
    /\ scale = 0
    /\ goCalls = 0
    /\ prevExitStep = -1
    /\ events = <<>>

\* Retrieval::Init, on a new controller or on one whose Go has returned.
RetrievalInit ==
    /\ pc = "idle"
    /\ ~initialized \/ goCalls >= 1
    /\ \E viewport \in Viewports, limits \in AllLimits :
          /\ m_viewport' = viewport
          /\ m_limits' = limits
          /\ reinit' = IF ~initialized THEN "no"
                        ELSE IF limits = m_limits THEN "kept" ELSE "replaced"
    /\ m_buckets' = AdmittedFrom(1)
    /\ initialized' = TRUE
    /\ viewportScaleStep' = 0
    /\ scale' = 0
    /\ goCalls' = 0
    /\ prevExitStep' = -1
    /\ events' = <<>>
    /\ UNCHANGED <<index, pc>>

\* Retrieval::Go is entered.
GoBegin ==
    /\ pc = "idle"
    /\ initialized
    /\ goCalls < MaxGo
    /\ pc' = "loop"
    /\ viewportScaleStep' = 0
    /\ scale' = 0
    /\ goCalls' = goCalls + 1
    /\ reinit' = "no"
    /\ UNCHANGED <<index, m_viewport, m_limits, m_buckets, initialized, prevExitStep, events>>

\* Retrieval::Go, one iteration of the loop of lines 143-159.
GoPass ==
    /\ pc = "loop"
    /\ viewportScaleStep <= MaxStep
    /\ LET passScale == PassScale(m_limits, viewportScaleStep)
           viewport == PassViewport(m_viewport, m_limits, viewportScaleStep)
           result == RetrieveForViewport(m_buckets, viewport, viewportScaleStep)
       IN  /\ scale' = passScale
           /\ m_buckets' = result.buckets
           /\ events' = events \o result.events
           /\ IF LoopExits(m_limits, result.buckets, passScale)
              THEN /\ pc' = "drain"
                   /\ prevExitStep' = viewportScaleStep
                   /\ UNCHANGED viewportScaleStep
              ELSE /\ viewportScaleStep' = viewportScaleStep + 1
                   /\ UNCHANGED <<pc, prevExitStep>>
    /\ UNCHANGED <<index, m_viewport, m_limits, initialized, reinit, goCalls>>

\* Retrieval::Go, the loop of lines 161-170, and the return.
GoDrain ==
    /\ pc = "drain"
    /\ LET results == [i \in 1..Len(m_buckets) |-> DrainBucket(m_buckets[i])]
       IN  /\ m_buckets' = [i \in 1..Len(m_buckets) |-> results[i].bucket]
           /\ events' = events \o ConcatEvents(results, 1)
    /\ pc' = "idle"
    /\ UNCHANGED <<index, m_viewport, m_limits, initialized, reinit,
                   viewportScaleStep, scale, goCalls, prevExitStep>>

Next == RetrievalInit \/ GoBegin \/ GoPass \/ GoDrain

Spec == Init /\ [][Next]_vars

-----------------------------------------------------------------------------
\* Vocabulary of the properties.

\* Go has returned at least once since the last Init.
Returned == pc = "idle" /\ goCalls >= 1

IsSink(e) == e.kind = "sink"

\* The positions of the callback invocations in events.
Sinks == {i \in DOMAIN events : IsSink(events[i])}

\* The callback invocations for mwm `id`.
SinksOf(id) == {i \in Sinks : events[i].id = id}

Handles == {m_buckets[i].m_handle : i \in DOMAIN m_buckets}

NoLimits == ~m_limits.m_minNumFeaturesSet /\ ~m_limits.m_maxViewportScaleSet

\* The horizon MaxStep cuts no terminating loop short: a loop that reaches it
\* has a viewport of width or height zero and a bucket that no scale covers,
\* and no maximal scale to stop it.
NeverCovered(bucket) ==
    \/ /\ SizeX(m_viewport) = 0
       /\ ~(2 * bucket.m_bounds.minX = m_viewport.minX + m_viewport.maxX /\
            2 * bucket.m_bounds.maxX = m_viewport.minX + m_viewport.maxX)
    \/ /\ SizeY(m_viewport) = 0
       /\ ~(2 * bucket.m_bounds.minY = m_viewport.minY + m_viewport.maxY /\
            2 * bucket.m_bounds.maxY = m_viewport.minY + m_viewport.maxY)

HorizonOnlyWhenStuck ==
    (pc = "loop" /\ viewportScaleStep > MaxStep) =>
        /\ ~m_limits.m_maxViewportScaleSet
        /\ \E i \in DOMAIN m_buckets : NeverCovered(m_buckets[i])

-----------------------------------------------------------------------------
\* C1: within one Go the callback is invoked at most once per mwm id; a
\* bucket reported when the viewport covers it is not reported again by a
\* later pass or by the drain.
C1_AtMostOncePerMwm ==
    \A i, j \in Sinks :
        (i < j /\ events[i].go = events[j].go) => events[i].id # events[j].id

\* A Go has returned in which one bucket was reported by the full-coverage
\* branch, later passes ran, and the drain reported another bucket.
C1_Witness ==
    /\ Returned
    /\ \E i, j \in Sinks :
          /\ events[i].go = events[j].go
          /\ events[i].pass >= 0
          /\ events[i].pass < prevExitStep
          /\ events[j].pass = -1

\* C2: the callback is invoked for a bucket iff its intersection is non-empty
\* at the step that turns its finished flag from false to true, and only at
\* such a step; no invocation carries an empty sequence, and an mwm whose
\* address matcher emits nothing is never reported.
C2_FinishStep ==
    LET new == (Len(events) + 1)..Len(events')
        finishes(i) == /\ i \in DOMAIN m_buckets'
                       /\ ~m_buckets[i].m_finished
                       /\ m_buckets'[i].m_finished
    IN  /\ \A i \in DOMAIN m_buckets :
              finishes(i) =>
                  ((\E j \in new : /\ IsSink(events'[j])
                                   /\ events'[j].id = m_buckets'[i].m_handle)
                   <=> m_buckets'[i].m_intersection # <<>>)
        /\ \A j \in new :
              IsSink(events'[j]) =>
                  \E i \in DOMAIN m_buckets :
                      /\ finishes(i)
                      /\ events'[j].id = m_buckets'[i].m_handle
                      /\ events'[j].offsets = m_buckets'[i].m_intersection

C2_NeverEmpty ==
    \A i \in Sinks : events[i].offsets # <<>> /\ index[events[i].id].address # <<>>

C2_ReportedIffNonEmpty == [][C2_FinishStep]_vars /\ []C2_NeverEmpty

\* A Go has returned that reported one mwm and finished, without a report,
\* an mwm with geometry matches and no address match.
C2_Witness ==
    /\ Returned
    /\ Sinks # {}
    /\ \E i \in DOMAIN m_buckets :
          /\ m_buckets[i].m_finished
          /\ m_buckets[i].m_geometryFeatures # <<>>
          /\ index[m_buckets[i].m_handle].address = <<>>
          /\ SinksOf(m_buckets[i].m_handle) = {}

\* C3: every sequence handed to the callback is strictly ascending, also when
\* an id occurs more than once in the address output and in the geometry
\* output.
C3_StrictlyAscending ==
    \A i \in Sinks :
        \A a, b \in DOMAIN events[i].offsets :
            a < b => events[i].offsets[a] < events[i].offsets[b]

\* C4: a Go called after a Go has returned, with no Init in between, changes
\* no bucket, runs no matcher, invokes no callback, and leaves its loop no
\* later than the pass at which the previous Go left it.
C4_SecondGoStep ==
    (goCalls >= 2 /\ pc \in {"loop", "drain"}) =>
        (m_buckets' = m_buckets /\ events' = events)

C4_SecondGoLeavesLoop ==
    (goCalls >= 2 /\ pc = "loop") => viewportScaleStep <= prevExitStep

C4_SecondGoIsNoOp == [][C4_SecondGoStep]_vars /\ []C4_SecondGoLeavesLoop

\* The second Go has returned after a first Go that left a bucket uncovered
\* and reported it in the drain.
C4_Witness ==
    /\ pc = "idle"
    /\ goCalls = 2
    /\ \E i \in DOMAIN m_buckets :
          /\ ~m_buckets[i].m_coveredByViewport
          /\ SinksOf(m_buckets[i].m_handle) # {}

\* C5: with no limit set, when Go has returned every bucket is covered and
\* finished, and each mwm whose address matches meet its geometry matches
\* over its whole bounds has been reported exactly once, with that set; the
\* other mwms have not been reported.
FinalSet(handle) ==
    ToSet(index[handle].address) \cap (ToSet(index[handle].lo) \cup ToSet(index[handle].hi))

C5_AllCoveredAndReported ==
    (NoLimits /\ Returned) =>
        \A i \in DOMAIN m_buckets :
            LET bucket == m_buckets[i]
                calls == SinksOf(bucket.m_handle)
            IN  /\ bucket.m_coveredByViewport
                /\ bucket.m_finished
                /\ Cardinality(calls) = IF FinalSet(bucket.m_handle) = {} THEN 0 ELSE 1
                /\ \A c \in calls : ToSet(events[c].offsets) = FinalSet(bucket.m_handle)

\* A Go without limits has returned after reporting two mwms, one of which
\* did not touch the base viewport.
C5_Witness ==
    /\ NoLimits
    /\ Returned
    /\ Cardinality({events[i].id : i \in Sinks}) >= 2
    /\ \E i \in DOMAIN events :
          /\ events[i].kind = "address"
          /\ events[i].pass > 0
          /\ SinksOf(events[i].id) # {}

\* C6: with no limit set the loop of Go terminates, for every registry and
\* every base viewport, and it is left exactly after the first pass at whose
\* end every bucket is covered.  Termination is stated on the horizon: the
\* loop never stands at a pass beyond MaxStep (by HorizonOnlyWhenStuck only a
\* loop that no scale ends stands there).
C6_LoopTerminatesAtCoverage ==
    /\ (NoLimits /\ pc = "loop") => viewportScaleStep <= MaxStep
    /\ (NoLimits /\ pc = "loop" /\ viewportScaleStep > 0)
           => ~ViewportCoversAllMwms(m_buckets)
    /\ (NoLimits /\ pc = "drain") => ViewportCoversAllMwms(m_buckets)

\* C7: when Go has returned every bucket is finished, however the loop was
\* left and whether or not a pass viewport met the bucket.
C7_AllFinishedOnReturn ==
    Returned => \A i \in DOMAIN m_buckets : m_buckets[i].m_finished

\* A Go has returned whose loop was left on min_num_features, with a bucket
\* that no pass viewport met.
C7_Witness ==
    /\ Returned
    /\ m_limits.m_minNumFeaturesSet
    /\ ~m_limits.m_maxViewportScaleSet
    /\ ~ViewportCoversAllMwms(m_buckets)
    /\ \E i \in DOMAIN m_buckets :
          ~m_buckets[i].m_intersectsWithViewport /\ m_buckets[i].m_finished

\* C8: the ids of every callback invocation are the sorted intersection of
\* the mwm's sorted address matches and its sorted geometry matches at the
\* viewport of the pass that reported it; an invocation of the drain carries
\* the intersection at the viewport of the final pass of the loop.
C8_DeliveredIsLastIntersection ==
    \A i \in Sinks :
        LET e == events[i]
            viewport == Scale(m_viewport, e.scale)
        IN  /\ e.offsets =
                   SetIntersection(Sort(index[e.id].address),
                                   Sort(RetrieveGeometryFeatures(e.id, viewport)))
            /\ e.pass >= 0 => e.scale = PassScale(m_limits, e.pass)
            /\ (e.pass = -1 /\ e.go = goCalls) =>
                   e.scale = PassScale(m_limits, prevExitStep)

\* The drain has reported an mwm that was first met by a pass before the
\* final one.
C8_Witness ==
    /\ Returned
    /\ \E i \in Sinks, j \in DOMAIN events :
          /\ events[i].pass = -1
          /\ events[i].go = goCalls
          /\ events[j].kind = "address"
          /\ events[j].id = events[i].id
          /\ events[j].pass < prevExitStep

RECURSIVE Delivered(_, _)
\* The number of ids handed to the callback by the events evs, in Go number
\* go (in every Go, for go = 0).
Delivered(evs, go) ==
    IF evs = <<>> THEN 0
    ELSE (IF IsSink(Head(evs)) /\ (go = 0 \/ Head(evs).go = go)
          THEN Len(Head(evs).offsets) ELSE 0) + Delivered(Tail(evs), go)

RECURSIVE SumIntersections(_)
SumIntersections(i) ==
    IF i > Len(m_buckets) THEN 0
    ELSE Len(m_buckets[i].m_intersection) + SumIntersections(i + 1)

LeftOnCoverageOrMaxScale ==
    \/ ViewportCoversAllMwms(m_buckets)
    \/ m_limits.m_maxViewportScaleSet /\ scale >= m_limits.m_maxViewportScale

\* C9 as stated: when min_num_features = m is set and Go has returned, this
\* Go has delivered at least m ids, or every bucket is covered, or the last
\* pass ran at the maximal scale.
C9_MinDeliveredByThisGo ==
    (m_limits.m_minNumFeaturesSet /\ Returned) =>
        \/ Delivered(events, goCalls) >= m_limits.m_minNumFeatures
        \/ LeftOnCoverageOrMaxScale

\* C9 as amended: when min_num_features = m is set and Go has returned, the
\* Go calls since the last Init have delivered at least m ids, or every
\* bucket is covered, or the last pass ran at the maximal scale; and the ids
\* counted for the early stop, those of finished buckets included, are
\* exactly the ids delivered.
C9_MinDeliveredSinceInit ==
    /\ (m_limits.m_minNumFeaturesSet /\ Returned) =>
           \/ Delivered(events, 0) >= m_limits.m_minNumFeatures
           \/ LeftOnCoverageOrMaxScale
    /\ Returned => SumIntersections(1) = Delivered(events, 0)

\* A Go has returned whose loop was left on min_num_features >= 1 after one
\* bucket was reported by a pass; the drain reported another.
C9_Witness ==
    /\ Returned
    /\ m_limits.m_minNumFeaturesSet
    /\ m_limits.m_minNumFeatures >= 1
    /\ ~LeftOnCoverageOrMaxScale
    /\ \E i, j \in Sinks : events[i].pass >= 0 /\ events[j].pass = -1

ZeroMinOnly ==
    /\ m_limits.m_minNumFeaturesSet
    /\ m_limits.m_minNumFeatures = 0
    /\ ~m_limits.m_maxViewportScaleSet

\* C10 as stated: with min_num_features = 0 and no maximal scale the loop is
\* not left before every bucket is covered.
C10_ZeroMinRunsToCoverage ==
    (ZeroMinOnly /\ pc = "drain") => ViewportCoversAllMwms(m_buckets)

\* C10 as amended: with min_num_features = 0 and no maximal scale the loop
\* is left after its first pass, covered or not.
C10_ZeroMinStopsAfterFirstPass ==
    ZeroMinOnly =>
        /\ pc = "loop" => viewportScaleStep = 0
        /\ pc = "drain" => prevExitStep = 0

\* The loop has been left after its first pass with a bucket uncovered.
C10_Witness ==
    /\ ZeroMinOnly
    /\ pc = "drain"
    /\ prevExitStep = 0
    /\ ~ViewportCoversAllMwms(m_buckets)

-----------------------------------------------------------------------------
\* Two retrievals compared: the one the controller has run, and the one a
\* newly initialised controller over the same registry runs with another
\* base viewport or other limits (GoRun over the buckets Init builds).

\* The ids the callback received for mwm `id` in the events evs.
ReportedIds(evs, id) ==
    UNION {ToSet(evs[i].offsets) : i \in {j \in DOMAIN evs : IsSink(evs[j]) /\ evs[j].id = id}}

\* The Go that follows Init has returned, and no later Go has been called.
FirstGoReturned == Returned /\ goCalls = 1

\* Every id reported for an mwm by the events `less` is reported for it by
\* the events `more` (so an mwm reported by `less` is reported by `more`).
SupersetPerTile(more, less) ==
    \A id \in Handles : ReportedIds(less, id) \subseteq ReportedIds(more, id)

\* Base viewports to compare with: a point, a unit square, a segment.
InnerViewports == {Rect(0, 0, 0, 0), Rect(1, 0, 2, 1), Rect(0, 0, 1, 0)}

\* The viewports of InnerViewports that the rectangle v contains.
Inner(v) == {w \in InnerViewports : w # v /\ IsRectInside(Scale(v, ViewportScale(0)), w)}

\* C11 as stated: a Go from base viewport V' reports, for every mwm, a
\* superset of what a Go from a base viewport V inside V' reports, the
\* registry and the limits being equal, min_num_features set or not.
C11_EnlargedViewportSuperset ==
    FirstGoReturned =>
        \A w \in Inner(m_viewport) :
            LET inner == GoRun(w, m_limits, AdmittedFrom(1))
            IN  inner.returned => SupersetPerTile(events, inner.events)

\* A maximal scale, when set, is at least 1.
MaxScaleNotShrinking ==
    m_limits.m_maxViewportScaleSet => m_limits.m_maxViewportScale >= ViewportScale(0)

\* C11 as amended: the same, when min_num_features is not set and the
\* maximal scale, if set, is at least 1.
C11_EnlargedViewportSupersetNoMin ==
    (FirstGoReturned /\ ~m_limits.m_minNumFeaturesSet /\ MaxScaleNotShrinking) =>
        \A w \in Inner(m_viewport) :
            LET inner == GoRun(w, m_limits, AdmittedFrom(1))
            IN  inner.returned => SupersetPerTile(events, inner.events)

\* A Go without min_num_features, and with no maximal scale below 1, has
\* returned, and the Go from a smaller base viewport returns having reported
\* an mwm with fewer ids.
C11_Witness ==
    /\ FirstGoReturned
    /\ ~m_limits.m_minNumFeaturesSet
    /\ MaxScaleNotShrinking
    /\ \E w \in Inner(m_viewport) :
          LET inner == GoRun(w, m_limits, AdmittedFrom(1))
          IN  /\ inner.returned
              /\ \E id \in Handles :
                    /\ ReportedIds(inner.events, id) # {}
                    /\ ReportedIds(inner.events, id) # ReportedIds(events, id)

\* The Go of a newly initialised controller with the controller's registry
\* and base viewport and max_viewport_scale = maxViewportScale, the other
\* limit being the controller's.
WithMaxViewportScale(maxViewportScale) ==
    GoRun(m_viewport, SetMaxViewportScale(m_limits, maxViewportScale), AdmittedFrom(1))

\* C12: a Go with max_viewport_scale = M2 reports, for every mwm, a superset
\* of what a Go with max_viewport_scale = M1 < M2 reports, the registry, the
\* base viewport and min_num_features (set or not) being equal.
C12_RaisedMaxScaleSuperset ==
    (FirstGoReturned /\ m_limits.m_maxViewportScaleSet) =>
        \A M1 \in MaxViewportScales :
            M1 < m_limits.m_maxViewportScale =>
                LET other == WithMaxViewportScale(M1)
                IN  other.returned /\ SupersetPerTile(events, other.events)

\* A Go with a maximal scale and min_num_features set has returned having
\* reported more ids for an mwm than the Go with a smaller maximal scale
\* reports for it.
C12_Witness ==
    /\ FirstGoReturned
    /\ m_limits.m_maxViewportScaleSet
    /\ m_limits.m_minNumFeaturesSet
    /\ \E M1 \in MaxViewportScales :
          /\ M1 < m_limits.m_maxViewportScale
          /\ \E id \in Handles :
                /\ ReportedIds(WithMaxViewportScale(M1).events, id) # {}
                /\ ReportedIds(WithMaxViewportScale(M1).events, id) # ReportedIds(events, id)

\* The Go of a newly initialised controller with the controller's registry
\* and base viewport and min_num_features = minNumFeatures, the other limit
\* being the controller's.
WithMinNumFeatures(minNumFeatures) ==
    GoRun(m_viewport, SetMinNumFeatures(m_limits, minNumFeatures), AdmittedFrom(1))

\* C13: a Go with min_num_features = m2 runs at least as many passes as a Go
\* with min_num_features = m1 < m2 and reports, for every mwm, a superset of
\* what that Go reports, all else being equal.
C13_RaisedMinNumFeatures ==
    (FirstGoReturned /\ m_limits.m_minNumFeaturesSet) =>
        \A m1 \in MinNumFeatures :
            m1 < m_limits.m_minNumFeatures =>
                LET other == WithMinNumFeatures(m1)
                IN  /\ other.returned
                    /\ other.passes <= prevExitStep + 1
                    /\ SupersetPerTile(events, other.events)

\* A Go with min_num_features = m2 has returned after more passes, and with
\* more ids reported for an mwm, than the Go with a smaller min_num_features
\* that reports the mwm too.
C13_Witness ==
    /\ FirstGoReturned
    /\ m_limits.m_minNumFeaturesSet
    /\ \E m1 \in MinNumFeatures :
          /\ m1 < m_limits.m_minNumFeatures
          /\ WithMinNumFeatures(m1).passes < prevExitStep + 1
          /\ \E id \in Handles :
                /\ ReportedIds(WithMinNumFeatures(m1).events, id) # {}
                /\ ReportedIds(WithMinNumFeatures(m1).events, id) # ReportedIds(events, id)

-----------------------------------------------------------------------------
\* The positions in events of the matcher runs and callback invocations of
\* the passes (not of the drain) at which viewportScale has reached a set
\* maximal scale.  The scale of an event is that of the viewport
\* RetrieveForViewport was handed.
ClampedPassEvents ==
    {i \in DOMAIN events :
        /\ events[i].pass >= 0
        /\ m_limits.m_maxViewportScaleSet
        /\ ViewportScale(events[i].pass) >= m_limits.m_maxViewportScale}

\* C14 as stated: on the iteration where max_viewport_scale is set and
\* viewportScale has reached it, the viewport handed to the pass is the base
\* viewport scaled by the unclamped viewportScale.
C14_FinalPassViewportUnclamped ==
    \A i \in ClampedPassEvents : events[i].scale = ViewportScale(events[i].pass)

\* C14 as amended: on that iteration the viewport handed to the pass is the
\* base viewport scaled by max_viewport_scale, the clamped scale that also
\* drives the exit; it is never larger.
C14_FinalPassViewportClamped ==
    \A i \in ClampedPassEvents : events[i].scale = m_limits.m_maxViewportScale

\* A matcher has run in a pass at which viewportScale exceeds the maximal
\* scale.
C14_Witness ==
    \E i \in ClampedPassEvents :
        /\ events[i].kind = "geometry"
        /\ ViewportScale(events[i].pass) > m_limits.m_maxViewportScale

Min(a, b) == IF a <= b THEN a ELSE b

\* The rectangles the passes compare the viewport with: the bounds of the
\* mwms and their covering cells.
Targets ==
    UNION {{index[i].bounds, LoCell(index[i].bounds), HiCell(index[i].bounds)} :
              i \in DOMAIN index}

\* C15: with max_viewport_scale = M set, every pass runs on the base viewport
\* scaled by min(viewportScale, M), never by more than M; the pass at scale M
\* is the last of its Go; and within one Go the pass viewports do not shrink
\* (for M < 1 the only pass runs at scale M).
C15_PassStep ==
    (pc = "loop") =>
        LET new == (Len(events) + 1)..Len(events')
        IN  /\ \A j \in new : events'[j].scale = scale'
            /\ viewportScaleStep > 0 =>
                   /\ scale <= scale'
                   /\ \A r \in Targets :
                         /\ IsIntersect(Scale(m_viewport, scale), r)
                                => IsIntersect(Scale(m_viewport, scale'), r)
                         /\ IsRectInside(Scale(m_viewport, scale), r)
                                => IsRectInside(Scale(m_viewport, scale'), r)
            /\ m_limits.m_maxViewportScaleSet =>
                   /\ scale' = Min(ViewportScale(viewportScaleStep), m_limits.m_maxViewportScale)
                   /\ scale' <= m_limits.m_maxViewportScale
                   /\ scale' = m_limits.m_maxViewportScale => pc' = "drain"
                   /\ m_limits.m_maxViewportScale < ViewportScale(0) => viewportScaleStep = 0

C15_ClampedScales ==
    m_limits.m_maxViewportScaleSet =>
        \A i \in DOMAIN events : events[i].scale <= m_limits.m_maxViewportScale

C15_PassScaleIsClamped == [][C15_PassStep]_vars /\ []C15_ClampedScales

\* A Go with max_viewport_scale = 3 has left its loop after the pass at scale
\* 3, with matcher runs at a smaller scale before it.
C15_Witness ==
    /\ pc = "drain"
    /\ m_limits.m_maxViewportScaleSet
    /\ scale = m_limits.m_maxViewportScale
    /\ ViewportScale(viewportScaleStep) > m_limits.m_maxViewportScale
    /\ \E i, j \in DOMAIN events :
          /\ events[i].scale < events[j].scale
          /\ events[j].scale = m_limits.m_maxViewportScale
          /\ events[j].pass = viewportScaleStep

-----------------------------------------------------------------------------
\* The positions in events of the runs of a matcher on mwm `id`.
RunsOf(kind, id) == {i \in DOMAIN events : events[i].kind = kind /\ events[i].id = id}

\* The last pass the first Go after Init has run (-1: none).
LastPassOfFirstGo ==
    IF goCalls = 0 THEN -1
    ELSE IF pc = "loop" THEN viewportScaleStep - 1
    ELSE IF pc = "drain" THEN viewportScaleStep
    ELSE prevExitStep

\* The viewport of pass q meets the bounds of the bucket; contains them.
Meets(q, bucket) == IsIntersect(PassViewport(m_viewport, m_limits, q), bucket.m_bounds)
Covers(q, bucket) == IsRectInside(PassViewport(m_viewport, m_limits, q), bucket.m_bounds)

\* C16: over one retrieval the address matcher runs at most once per bucket,
\* in the first pass whose viewport meets the bucket's bounds and right before
\* the geometry matcher runs on the bucket in that pass; address_features is
\* empty before that run and is not modified after it; the geometry matcher
\* runs on the bucket in every later pass until the bucket is finished.
C16_AddressOnce ==
    \A b \in DOMAIN m_buckets :
        LET bucket == m_buckets[b]
            id == bucket.m_handle
        IN  /\ Cardinality(RunsOf("address", id)) <= 1
            /\ ~bucket.m_intersectsWithViewport =>
                   (RunsOf("address", id) = {} /\ bucket.m_addressFeatures = <<>>)
            /\ \A i \in RunsOf("address", id) :
                   /\ bucket.m_intersectsWithViewport
                   /\ events[i].go = 1
                   /\ Meets(events[i].pass, bucket)
                   /\ \A q \in 0..(events[i].pass - 1) : ~Meets(q, bucket)
                   /\ i + 1 \in RunsOf("geometry", id)
                   /\ events[i + 1].pass = events[i].pass
                   /\ \A j \in RunsOf("geometry", id) : j > i
            /\ \A i, j \in RunsOf("geometry", id) :
                   (events[i].pass = events[j].pass) => i = j
            /\ goCalls = 1 =>
                   \A q \in 0..LastPassOfFirstGo :
                       /\ (\E j \in RunsOf("geometry", id) : events[j].pass = q)
                             <=> (Meets(q, bucket) /\ \A q0 \in 0..(q - 1) : ~Covers(q0, bucket))
                       /\ (\E i \in RunsOf("address", id) : events[i].pass <= q)
                             <=> Meets(q, bucket)

C16_AddressStep ==
    (pc # "idle" \/ pc' # "idle") =>
        \A b \in DOMAIN m_buckets :
            m_buckets'[b].m_addressFeatures # m_buckets[b].m_addressFeatures =>
                /\ ~m_buckets[b].m_intersectsWithViewport
                /\ m_buckets'[b].m_intersectsWithViewport
                /\ m_buckets[b].m_addressFeatures = <<>>

C16_AddressMatcherOnce == [][C16_AddressStep]_vars /\ []C16_AddressOnce

\* A Go has returned in which an mwm was first met by a pass after the first
\* one, the geometry matcher ran on it in two passes, and a pass covered it.
C16_Witness ==
    /\ Returned
    /\ goCalls = 1
    /\ \E b \in DOMAIN m_buckets :
          /\ m_buckets[b].m_coveredByViewport
          /\ m_buckets[b].m_addressFeatures # <<>>
          /\ \E i \in RunsOf("address", m_buckets[b].m_handle) : events[i].pass > 0
          /\ Cardinality(RunsOf("geometry", m_buckets[b].m_handle)) >= 2
          /\ Cardinality(RunsOf("geometry", m_buckets[b].m_handle)) < prevExitStep + 1

-----------------------------------------------------------------------------
\* C17: once a bucket is finished no step of Go, in the same Go or in a later
\* one, changes a field of it or runs a matcher or the callback on it, until
\* the next Init; so its finished flag turns from false to true at most once.
C17_FinishedIsFrozen ==
    [][ (pc # "idle" \/ pc' # "idle") =>
            \A b \in DOMAIN m_buckets :
                m_buckets[b].m_finished =>
                    /\ m_buckets'[b] = m_buckets[b]
                    /\ \A j \in (Len(events) + 1)..Len(events') :
                          events'[j].id # m_buckets[b].m_handle ]_vars

\* The loop of a second Go has run a pass whose viewport meets a bucket that
\* the first Go finished in its drain, uncovered and with matches; in the
\* first Go another bucket was covered before the last pass.
C17_Witness ==
    /\ goCalls = 2
    /\ pc = "drain"
    /\ \E b, c \in DOMAIN m_buckets :
          /\ m_buckets[b].m_finished
          /\ ~m_buckets[b].m_coveredByViewport
          /\ m_buckets[b].m_intersection # <<>>
          /\ Meets(0, m_buckets[b])
          /\ m_buckets[c].m_coveredByViewport
          /\ Cardinality(RunsOf("geometry", m_buckets[c].m_handle))
                < Cardinality(RunsOf("geometry", m_buckets[b].m_handle))

-----------------------------------------------------------------------------
\* No viewport of the passes 0..last meets the bounds of the bucket.
Unmet(bucket, last) == \A q \in 0..last : ~Meets(q, bucket)

\* The bucket is as Init built it, but for the finished flag.
Untouched(bucket) ==
    /\ ~bucket.m_intersectsWithViewport
    /\ ~bucket.m_coveredByViewport
    /\ bucket.m_addressFeatures = <<>>
    /\ bucket.m_geometryFeatures = <<>>
    /\ bucket.m_intersection = <<>>

\* C18: a bucket whose bounds meet none of the pass viewports of a Go has no
\* matcher run and no callback invocation in that Go; in the Go that follows
\* Init it keeps its flags false and its sequences empty and the drain marks
\* it finished.  So every mwm reported, also when the loop is left on
\* min_num_features, is met by the viewport of some pass.
C18_UnmetBucketUntouched ==
    /\ Returned =>
           \A b \in DOMAIN m_buckets :
               Unmet(m_buckets[b], prevExitStep) =>
                   /\ \A i \in DOMAIN events :
                         (events[i].go = goCalls) => events[i].id # m_buckets[b].m_handle
                   /\ m_buckets[b].m_finished
                   /\ goCalls = 1 =>
                          /\ Untouched(m_buckets[b])
                          /\ \A i \in DOMAIN events : events[i].id # m_buckets[b].m_handle
    /\ (pc = "drain" /\ goCalls = 1) =>
           \A b \in DOMAIN m_buckets :
               Unmet(m_buckets[b], viewportScaleStep) =>
                   (Untouched(m_buckets[b]) /\ ~m_buckets[b].m_finished)

\* A Go has returned whose loop was left on min_num_features: it reported
\* one mwm and met no bounds of another mwm, whose address matches and
\* geometry matches have an id in common.
C18_Witness ==
    /\ Returned
    /\ goCalls = 1
    /\ m_limits.m_minNumFeaturesSet
    /\ ~LeftOnCoverageOrMaxScale
    /\ Sinks # {}
    /\ \E b \in DOMAIN m_buckets :
          /\ Unmet(m_buckets[b], prevExitStep)
          /\ FinalSet(m_buckets[b].m_handle) # {}
          /\ m_buckets[b].m_finished

-----------------------------------------------------------------------------
\* The position in m_buckets, as Init filled it, of the bucket of mwm `id`.
BucketOf(id) == CHOOSE b \in DOMAIN m_buckets : m_buckets[b].m_handle = id

\* C19: within one Go the callback invocations of the passes precede those
\* of the drain; invocations of an earlier pass precede those of a later
\* pass; invocations of one pass, and those of the drain, follow the order of
\* the buckets.
C19_SinkOrder ==
    \A i, j \in Sinks :
        (i < j /\ events[i].go = events[j].go) =>
            LET p == events[i].pass
                q == events[j].pass
                inBucketOrder == BucketOf(events[i].id) < BucketOf(events[j].id)
            IN  \/ p >= 0 /\ q = -1
                \/ p >= 0 /\ q > p
                \/ p >= 0 /\ q = p /\ inBucketOrder
                \/ p = -1 /\ q = -1 /\ inBucketOrder

\* One pass has covered and reported two mwms.
C19_Witness ==
    \E i, j \in Sinks :
        /\ i < j
        /\ events[i].go = events[j].go
        /\ events[i].pass >= 0
        /\ events[i].pass = events[j].pass

-----------------------------------------------------------------------------
\* The positions in the registry of the mwms Init admits, in order.
Admitted ==
    SelectSeq([i \in 1..Len(index) |-> i],
              LAMBDA i : index[i].alive /\ index[i].hasSearchIndex /\ index[i].hasIndex)

\* The working set holds one bucket per admitted mwm, in registry order, each
\* with its flags false and its sequences empty.
WorkingSetIsNew ==
    /\ Len(m_buckets) = Len(Admitted)
    /\ \A b \in DOMAIN m_buckets :
          /\ m_buckets[b].m_handle = Admitted[b]
          /\ m_buckets[b].m_bounds = index[Admitted[b]].bounds
          /\ Untouched(m_buckets[b])
          /\ ~m_buckets[b].m_finished

\* C20: after Init on a controller that has run a Go the working set is
\* rebuilt, whatever the earlier Go left in it: it is the working set Init
\* builds on a new controller, with all flags false and all sequences empty,
\* and the limits are those of this Init.  The Go that follows an Init, on a
\* new controller or on a used one, runs the matchers and the callback
\* exactly as Go does as a function of the Init arguments alone.
C20_InitRebuilds ==
    /\ reinit # "no" =>
           /\ WorkingSetIsNew
           /\ goCalls = 0
           /\ events = <<>>
           /\ m_limits \in AllLimits
           /\ m_buckets = AdmittedFrom(1)
    /\ FirstGoReturned =>
           LET new == GoRun(m_viewport, m_limits, AdmittedFrom(1))
           IN  new.returned /\ new.events = events /\ new.buckets = m_buckets

\* Init has been called, with other limits, on a controller that had run a
\* Go; a mwm is admitted, and the Go to come reports it.
C20_Witness ==
    /\ reinit = "replaced"
    /\ m_limits.m_minNumFeaturesSet
    /\ m_buckets # <<>>
    /\ \E i \in DOMAIN GoRun(m_viewport, m_limits, m_buckets).events :
          IsSink(GoRun(m_viewport, m_limits, m_buckets).events[i])

-----------------------------------------------------------------------------
\* C21: in every state a covered bucket has been met by a viewport and is
\* finished; a bucket that is finished and not covered is made so by the
\* drain of Go only, never by a pass.
C21_CoveredImplies ==
    \A b \in DOMAIN m_buckets :
        /\ m_buckets[b].m_coveredByViewport => m_buckets[b].m_intersectsWithViewport
        /\ m_buckets[b].m_coveredByViewport => m_buckets[b].m_finished
        /\ (goCalls <= 1 /\ pc # "idle") =>
               (m_buckets[b].m_finished => m_buckets[b].m_coveredByViewport)

C21_FinishStep ==
    \A b \in DOMAIN m_buckets :
        (/\ ~m_buckets[b].m_finished
         /\ m_buckets'[b].m_finished
         /\ ~m_buckets'[b].m_coveredByViewport) => pc = "drain"

C21_FlagsProgress == [][C21_FinishStep]_vars /\ []C21_CoveredImplies

\* A Go has returned in which a pass covered one bucket and the drain
\* finished another, which a viewport had met, without covering it.
C21_Witness ==
    /\ Returned
    /\ \E b, c \in DOMAIN m_buckets :
          /\ m_buckets[b].m_coveredByViewport
          /\ m_buckets[b].m_finished
          /\ m_buckets[c].m_intersectsWithViewport
          /\ m_buckets[c].m_finished
          /\ ~m_buckets[c].m_coveredByViewport

====
